---- MODULE Spec2Model ----
(***************************************************************************)
(* A model of nexus_blaine_watcher.py: one execution of main() polls the   *)
(* scheduler API, filters the slots by date, compares the earliest slot    *)
(* with the persisted last-seen timestamp, notifies and saves the state.   *)
(* The external scheduler runs main() again and again against the same     *)
(* state file.                                                             *)
(*                                                                         *)
(* Time is counted in ticks; TicksPerDay ticks make one calendar day.  A   *)
(* timestamp string is the pair of its wall-clock reading and its timezone *)
(* suffix; a datetime is a wall-clock reading that is naive or carries a   *)
(* UTC offset in ticks.                                                    *)
(***************************************************************************)
EXTENDS Integers, Sequences, FiniteSets, TLC

MaxWall == 2
MaxSlots == 2
MaxDay == 2
TicksPerDay == 2

Walls == 0..MaxWall
FilterDays == 0..MaxDay

(***************************************************************************)
(* Timestamp strings and datetimes                                         *)
(***************************************************************************)
Str(w, z) == [wall |-> w, tz |-> z]
\* a value that is no ISO timestamp (garbage text, a number, an empty string)
Malformed == [wall |-> 0, tz |-> "malformed"]
\* the key is missing (or the container is no dict with that key)
Absent == [wall |-> 0, tz |-> "absent"]

InputTz == {"", "Z", "+01:00"}
TsStrings == {Str(w, z) : w \in Walls, z \in InputTz}

Naive(w) == [wall |-> w, aware |-> FALSE, off |-> 0]
Aware(w, o) == [wall |-> w, aware |-> TRUE, off |-> o]

\* str.replace("Z", "+00:00") on the timezone suffix
ReplaceZ(s) == IF s.tz = "Z" THEN [s EXCEPT !.tz = "+00:00"] ELSE s

\* datetime.fromisoformat: a ValueError (TypeError, KeyError) or a datetime
fromisoformat(s) ==
  CASE s.tz = ""       -> [raised |-> FALSE, dt |-> Naive(s.wall)]
    [] s.tz = "+00:00" -> [raised |-> FALSE, dt |-> Aware(s.wall, 0)]
    [] s.tz = "Z"      -> [raised |-> FALSE, dt |-> Aware(s.wall, 0)]
    [] s.tz = "+01:00" -> [raised |-> FALSE, dt |-> Aware(s.wall, 1)]
    [] s.tz = "-01:00" -> [raised |-> FALSE, dt |-> Aware(s.wall, -1)]
    [] OTHER           -> [raised |-> TRUE, dt |-> Naive(0)]

parse_iso(s) == fromisoformat(ReplaceZ(s))

\* datetime.date(): the calendar day of the wall-clock reading
DateOf(dt) == dt.wall \div TicksPerDay

\* a < b on datetimes: TypeError between a naive and an aware datetime
LtRaises(a, b) == a.aware # b.aware
Lt(a, b) == IF a.aware THEN a.wall - a.off < b.wall - b.off ELSE a.wall < b.wall

\* datetime.replace(tzinfo=timezone.utc): the wall clock is kept, the offset set
replace_tzinfo_utc(dt) == Aware(dt.wall, 0)

\* datetime.isoformat() followed by .replace("+00:00", "Z")
isoformat(dt) ==
  Str(dt.wall, IF ~dt.aware THEN ""
               ELSE IF dt.off = 0 THEN "+00:00"
               ELSE IF dt.off > 0 THEN "+01:00" ELSE "-01:00")
ReplaceUtc(s) == IF s.tz = "+00:00" THEN [s EXCEPT !.tz = "Z"] ELSE s

format_last_seen(dt) == ReplaceUtc(isoformat(replace_tzinfo_utc(dt)))

(***************************************************************************)
(* Date filters                                                            *)
(***************************************************************************)
Unset == [text |-> "unset", day |-> 0]
BadDate == [text |-> "malformed", day |-> 0]
DateStr(d) == [text |-> "date", day |-> d]
BoundStrings == {Unset, BadDate} \cup {DateStr(d) : d \in FilterDays}

Config(is, ie, xs, xe) ==
  [INCLUDE_START |-> is, INCLUDE_END |-> ie, EXCLUDE_START |-> xs, EXCLUDE_END |-> xe]
AllConfigs ==
  {Config(is, ie, xs, xe) : is \in BoundStrings, ie \in BoundStrings,
                            xs \in BoundStrings, xe \in BoundStrings}

\* truthiness of an environment string: None and "" are false
IsSet(b) == b.text # "unset"
\* datetime.strptime(s, "%Y-%m-%d").date(): ValueError on a malformed string
parse_date_raises(b) == b.text = "malformed"
parse_date(b) == b.day

\* the window test without the swap of lines 71-72 and 82-83
InRangeNoSwap(s, e, d) == s <= d /\ d <= e

InRange(s, e, d) == IF s > e THEN (e <= d /\ d <= s) ELSE (s <= d /\ d <= e)

Returned(v) == [raised |-> FALSE, value |-> v]
Raised == [raised |-> TRUE, value |-> FALSE]

\* the exclude window without the try of lines 77-81
exclude_branch_unguarded(d, c) ==
  IF IsSet(c.EXCLUDE_START) /\ IsSet(c.EXCLUDE_END)
  THEN IF parse_date_raises(c.EXCLUDE_START) \/ parse_date_raises(c.EXCLUDE_END)
       THEN Raised
       ELSE Returned(~InRange(parse_date(c.EXCLUDE_START), parse_date(c.EXCLUDE_END), d))
  ELSE Returned(TRUE)

exclude_branch(d, c) ==
  IF IsSet(c.EXCLUDE_START) /\ IsSet(c.EXCLUDE_END)
  THEN IF parse_date_raises(c.EXCLUDE_START) \/ parse_date_raises(c.EXCLUDE_END)
       THEN Returned(TRUE)
       ELSE Returned(~InRange(parse_date(c.EXCLUDE_START), parse_date(c.EXCLUDE_END), d))
  ELSE Returned(TRUE)

passes_date_filters(d, c) ==
  IF IsSet(c.INCLUDE_START) /\ IsSet(c.INCLUDE_END)
  THEN IF parse_date_raises(c.INCLUDE_START) \/ parse_date_raises(c.INCLUDE_END)
       THEN exclude_branch(d, c)
       ELSE Returned(InRange(parse_date(c.INCLUDE_START), parse_date(c.INCLUDE_END), d))
  ELSE exclude_branch(d, c)

(***************************************************************************)
(* State file, HTTP response                                               *)
(***************************************************************************)
File(k, v) == [kind |-> k, last_seen_iso |-> v]
MissingFile == File("missing", Absent)
\* exists, but read_text() or json.loads() raises
CorruptFile == File("corrupt", Absent)
\* valid JSON that is no object: an array, a number, a string, null
NonObjectFile == File("nonobject", Absent)
ObjectFile(v) == File("object", v)

InitialFiles ==
  {MissingFile, CorruptFile, NonObjectFile, ObjectFile(Absent), ObjectFile(Malformed)}

\* the value load_state() returns: a dict, or whatever else the JSON held
load_state(f) ==
  IF f.kind = "object" THEN [isdict |-> TRUE, last_seen_iso |-> f.last_seen_iso]
  ELSE IF f.kind = "nonobject" THEN [isdict |-> FALSE, last_seen_iso |-> Absent]
  ELSE [isdict |-> TRUE, last_seen_iso |-> Absent]

DiskOutcomes == {"ok", "fails"}

\* write_text(json.dumps(state)); an exception is caught and only logged
save_state(f, v, disk) == IF disk = "ok" THEN ObjectFile(v) ELSE f

Slot(s) == [startTimestamp |-> s]
\* a slot with a start timestamp, or one whose start cannot be read
SlotValues == {Slot(s) : s \in TsStrings \cup {Malformed}}
SlotSeqs == UNION {[1..n -> SlotValues] : n \in 0..MaxSlots}

Resp(k, ss) == [kind |-> k, slots |-> ss]
\* "error": URLError or timeout; "notjson": json.loads raises;
\* "falsy": null, false, 0, "", {} ; "scalar": a non-zero number or true;
\* "container": a non-empty object or string; "array": a JSON array
Responses ==
  {Resp(k, <<>>) : k \in {"error", "notjson", "falsy", "scalar", "container"}}
    \cup {Resp("array", ss) : ss \in SlotSeqs}

http_get_json_raises(r) == r.kind \in {"error", "notjson"}
\* what "for s in slots" iterates over, after "http_get_json(url) or []"
IterRaises(r) == r.kind = "scalar"
Elements(r) ==
  CASE r.kind = "array"     -> r.slots
    [] r.kind = "container" -> <<Slot(Absent)>>
    [] OTHER                -> <<>>

SlotParses(s) == ~parse_iso(s.startTimestamp).raised
SlotDt(s) == parse_iso(s.startTimestamp).dt

FilterRaises(ss, c) ==
  \E i \in 1..Len(ss) :
    SlotParses(ss[i]) /\ passes_date_filters(DateOf(SlotDt(ss[i])), c).raised
Keeps(s, c) == SlotParses(s) /\ passes_date_filters(DateOf(SlotDt(s)), c).value
Filtered(ss, c) == SelectSeq(ss, LAMBDA s : Keeps(s, c))

\* min(...) over a generator: keeps the first of equal elements, and raises
\* TypeError as soon as a naive and an aware datetime are compared
RECURSIVE MinFrom(_, _)
MinFrom(m, ss) ==
  IF ss = <<>> THEN m
  ELSE MinFrom(IF Lt(SlotDt(Head(ss)), m) THEN SlotDt(Head(ss)) ELSE m, Tail(ss))
MinDt(ss) == MinFrom(SlotDt(Head(ss)), Tail(ss))
MinRaises(ss) == \E i, j \in 1..Len(ss) : SlotDt(ss[i]).aware # SlotDt(ss[j]).aware

\* lines 187-192: None, or the parsed last_seen
LastSeenUsable(v) == v.tz # "absent" /\ ~parse_iso(v).raised

Outcome(o, e) == [outcome |-> o, earliest |-> e]

\* lines 185-206, once the filtered list is known to be non-empty
change_detection(last_seen, filtered) ==
  IF MinRaises(filtered) THEN Outcome("raised", Naive(0))
  ELSE LET earliest == MinDt(filtered)
       IN  IF ~LastSeenUsable(last_seen) THEN Outcome("alert", earliest)
           ELSE IF LtRaises(earliest, parse_iso(last_seen).dt)
                THEN Outcome("raised", earliest)
           ELSE IF Lt(earliest, parse_iso(last_seen).dt)
                THEN Outcome("alert", earliest)
           ELSE Outcome("exit0", earliest)

\* main() up to the decision of line 194
main_decide(f, r, c) ==
  LET state == load_state(f)
  IN  IF ~state.isdict THEN Outcome("raised", Naive(0))
      ELSE IF http_get_json_raises(r) THEN Outcome("exit1", Naive(0))
      ELSE IF IterRaises(r) \/ FilterRaises(Elements(r), c) THEN Outcome("raised", Naive(0))
      ELSE IF Filtered(Elements(r), c) = <<>> THEN Outcome("exit0", Naive(0))
      ELSE change_detection(state.last_seen_iso, Filtered(Elements(r), c))

(***************************************************************************)
(* The state machine: runs of main() against one state file                *)
(***************************************************************************)
VARIABLES
  cfg,          \* the date bounds of the environment
  stateFile,    \* the content of STATE_FILE
  pc,           \* position inside the current execution
  resp,         \* what the GET of this run returns
  disk,         \* whether write_text succeeded in this run
  fileAtStart,  \* the state file as the run found it
  result,       \* "exit0", "exit1", or "raised" for an unhandled exception
  earliest,     \* the local variable earliest of main()
  notifyCalls,  \* calls of notify() in this run
  block,        \* notify(): the transport block just passed, what became of
                \* it ("unconfigured", "sent", "failed") and its send attempts
  sent,         \* notify(): its local variable sent
  stdout,       \* times the message was printed to standard output
  saveCalls,    \* calls of save_state() in this run
  sameResp,     \* this run fetched the payload the previous run fetched
  prevAlerted,  \* the previous run notified and persisted its state
  zFile,        \* the state file of the twin runs, fed "XZ" for every naive "X"
  zResult,      \* the result of the twin run
  zNotified,    \* whether the twin run notified
  zEarliest,    \* the earliest slot of the twin run
  probe,        \* the date last handed to passes_date_filters on its own
  probeResult   \* and what it returned

vars ==
  <<cfg, stateFile, pc, resp, disk, fileAtStart, result, earliest, notifyCalls,
    block, sent, stdout, saveCalls, sameResp, prevAlerted,
    zFile, zResult, zNotified, zEarliest, probe, probeResult>>

Transports == {"whatsapp", "telegram", "email"}
Block(t, o, n) == [transport |-> t, outcome |-> o, attempts |-> n]
NoBlock == Block("none", "unconfigured", 0)
TransportOutcomes == {"unconfigured", "sent", "failed"}

NoFilter == Config(Unset, Unset, Unset, Unset)
MainConfigs ==
  {NoFilter,
   Config(DateStr(0), DateStr(0), Unset, Unset),
   Config(Unset, Unset, DateStr(0), DateStr(0))}

\* the files main() itself leaves behind
WrittenFiles == {ObjectFile(Str(w, "Z")) : w \in Walls}

\* the payload with every timezone-less start timestamp given the UTC marker
WithZ(s) == IF s.startTimestamp.tz = "" THEN Slot(Str(s.startTimestamp.wall, "Z")) ELSE s
ZNorm(r) == Resp(r.kind, [i \in 1..Len(r.slots) |-> WithZ(r.slots[i])])

NoResp == Resp("falsy", <<>>)

RunInit ==
  /\ pc = "idle"
  /\ resp = NoResp
  /\ disk = "ok"
  /\ fileAtStart = stateFile
  /\ result = "none"
  /\ earliest = Naive(0)
  /\ notifyCalls = 0
  /\ block = NoBlock
  /\ sent = FALSE
  /\ stdout = 0
  /\ saveCalls = 0
  /\ sameResp = FALSE
  /\ prevAlerted = FALSE
  /\ zFile = stateFile
  /\ zResult = "none"
  /\ zNotified = FALSE
  /\ zEarliest = Naive(0)
  /\ probe = 0
  /\ probeResult = Returned(TRUE)

Init ==
  /\ cfg \in MainConfigs
  /\ stateFile \in InitialFiles \cup WrittenFiles
  /\ RunInit

FinalResult(o) == IF o = "alert" THEN "exit0" ELSE o

\* a branch of lines 194-206 that saves the state whether or not it alerted
AfterDecisionSavesAlways(o) ==
  IF o = "alert" THEN "whatsapp" ELSE IF o = "exit0" THEN "returned" ELSE "done"

\* where main() goes once the outcome is known: into notify(), or out
AfterDecision(o) == IF o = "alert" THEN "whatsapp" ELSE "done"

\* main(), lines 162-201, fetching r: load, fetch, filter, detect the change and
\* either return or call notify()
Run(r) ==
  /\ \E d \in {main_decide(stateFile, r, cfg)}, zd \in {main_decide(zFile, ZNorm(r), cfg)} :
       /\ earliest' = d.earliest
       /\ notifyCalls' = IF d.outcome = "alert" THEN 1 ELSE 0
       /\ pc' = AfterDecision(d.outcome)
       /\ result' = IF d.outcome = "alert" THEN "running" ELSE d.outcome
       /\ zFile' = IF zd.outcome = "alert" /\ d.outcome # "alert"
                   THEN save_state(zFile, format_last_seen(zd.earliest), "ok")
                   ELSE zFile
       /\ zResult' = FinalResult(zd.outcome)
       /\ zNotified' = (zd.outcome = "alert")
       /\ zEarliest' = zd.earliest
  /\ resp' = r
  /\ fileAtStart' = stateFile
  /\ prevAlerted' = (notifyCalls = 1 /\ saveCalls = 1 /\ disk = "ok")
  /\ disk' = "ok"
  /\ block' = NoBlock
  /\ sent' = FALSE
  /\ stdout' = 0
  /\ saveCalls' = 0
  /\ UNCHANGED <<cfg, stateFile, probe, probeResult>>

\* the scheduler starts main() and the remote end answers anything
main ==
  /\ pc = "idle"
  /\ sameResp' = FALSE
  /\ \E r \in Responses : Run(r)

\* the scheduler starts main() again and the remote end answers what it
\* answered the run before
main_again ==
  /\ pc = "done"
  /\ sameResp' = TRUE
  /\ Run(resp)

\* a notify() whose first failed send ends the sending
TransportBlockAborting(t, next) ==
  /\ \E o \in TransportOutcomes :
       /\ block' = Block(t, o, IF o = "unconfigured" THEN 0 ELSE 1)
       /\ sent' = (sent \/ o = "sent")
       /\ pc' = IF o = "failed" THEN "print" ELSE next
  /\ UNCHANGED <<cfg, stateFile, resp, disk, fileAtStart, result, earliest,
                 notifyCalls, stdout, saveCalls, sameResp, prevAlerted,
                 zFile, zResult, zNotified, zEarliest, probe, probeResult>>

\* one "if <configured>: try: ... except Exception" block of notify()
TransportBlock(t, next) ==
  /\ \E o \in TransportOutcomes :
       /\ block' = Block(t, o, IF o = "unconfigured" THEN 0 ELSE 1)
       /\ sent' = (sent \/ o = "sent")
  /\ pc' = next
  /\ UNCHANGED <<cfg, stateFile, resp, disk, fileAtStart, result, earliest,
                 notifyCalls, stdout, saveCalls, sameResp, prevAlerted,
                 zFile, zResult, zNotified, zEarliest, probe, probeResult>>

notify_whatsapp == pc = "whatsapp" /\ TransportBlock("whatsapp", "telegram")
notify_telegram == pc = "telegram" /\ TransportBlock("telegram", "email")
notify_email == pc = "email" /\ TransportBlock("email", "print")

\* print(message), lines 157-159, and the return: the locals are gone
notify_print ==
  /\ pc = "print"
  /\ stdout' = stdout + 1
  /\ pc' = "returned"
  /\ block' = NoBlock
  /\ sent' = FALSE
  /\ UNCHANGED <<cfg, stateFile, resp, disk, fileAtStart, result, earliest,
                 notifyCalls, saveCalls,
                 sameResp, prevAlerted, zFile, zResult, zNotified, zEarliest,
                 probe, probeResult>>

\* lines 203-208: record the earliest slot, save the state, return 0
main_save ==
  /\ pc = "returned"
  /\ \E dsk \in DiskOutcomes :
       /\ disk' = dsk
       /\ stateFile' = save_state(stateFile, format_last_seen(earliest), dsk)
       /\ zFile' = IF zNotified
                   THEN save_state(zFile, format_last_seen(zEarliest), dsk)
                   ELSE zFile
  /\ saveCalls' = saveCalls + 1
  /\ result' = "exit0"
  /\ pc' = "done"
  /\ UNCHANGED <<cfg, resp, fileAtStart, earliest, notifyCalls, stdout, block, sent,
                 sameResp, prevAlerted, zResult, zNotified, zEarliest, probe, probeResult>>

\* the process is gone; only the state file is left for the next run
exited ==
  /\ pc = "done"
  /\ pc' = "idle"
  /\ resp' = NoResp
  /\ disk' = "ok"
  /\ fileAtStart' = stateFile
  /\ result' = "none"
  /\ earliest' = Naive(0)
  /\ notifyCalls' = 0
  /\ stdout' = 0
  /\ saveCalls' = 0
  /\ sameResp' = FALSE
  /\ prevAlerted' = FALSE
  /\ zResult' = "none"
  /\ zNotified' = FALSE
  /\ zEarliest' = Naive(0)
  /\ UNCHANGED <<cfg, stateFile, block, sent, zFile, probe, probeResult>>

Next ==
  \/ main
  \/ main_again
  \/ notify_whatsapp
  \/ notify_telegram
  \/ notify_email
  \/ notify_print
  \/ main_save
  \/ exited

Spec == Init /\ [][Next]_vars

(***************************************************************************)
(* passes_date_filters on its own, over every combination of the bounds    *)
(***************************************************************************)
FilterInit ==
  /\ cfg \in AllConfigs
  /\ stateFile = MissingFile
  /\ RunInit

apply_filter ==
  /\ \E d \in FilterDays :
       /\ probe' = d
       /\ probeResult' = passes_date_filters(d, cfg)
  /\ pc' = "filtered"
  /\ UNCHANGED <<cfg, stateFile, resp, disk, fileAtStart, result, earliest,
                 notifyCalls, block, sent, stdout, saveCalls,
                 sameResp, prevAlerted, zFile, zResult, zNotified, zEarliest>>

FilterNext == apply_filter

FilterSpec == FilterInit /\ [][FilterNext]_vars

(***************************************************************************)
(* What the claims speak of                                                *)
(***************************************************************************)
\* the instant a datetime denotes when a naive one is read as UTC
UtcInstant(dt) == dt.wall - dt.off

\* a run has come to its decision
Decided == result # "none"

\* the start instants of the slots of this run that pass the date filters
QualifyingInstants ==
  {UtcInstant(SlotDt(Elements(resp)[i])) :
     i \in {j \in 1..Len(Elements(resp)) : Keeps(Elements(resp)[j], cfg)}}
SetMin(S) == CHOOSE m \in S : \A x \in S : m <= x

\* the state file holds an object with a last-seen value that parses
Usable(f) == f.kind = "object" /\ f.last_seen_iso.tz \in {"", "Z", "+00:00", "+01:00", "-01:00"}
StoredInstant(f) == UtcInstant(parse_iso(f.last_seen_iso).dt)

BothDates(a, b) == a.text = "date" /\ b.text = "date"
IsBad(b) == b.text = "malformed"
Lo(a, b) == IF a.day <= b.day THEN a.day ELSE b.day
Hi(a, b) == IF a.day <= b.day THEN b.day ELSE a.day
InWindow(a, b, d) == Lo(a, b) <= d /\ d <= Hi(a, b)

\* the date-window function of the specification
ReferenceFilter(d, c) ==
  IF BothDates(c.INCLUDE_START, c.INCLUDE_END)
  THEN InWindow(c.INCLUDE_START, c.INCLUDE_END, d)
  ELSE IF BothDates(c.EXCLUDE_START, c.EXCLUDE_END)
  THEN ~InWindow(c.EXCLUDE_START, c.EXCLUDE_END, d)
  ELSE TRUE

AnyBad(c) ==
  IsBad(c.INCLUDE_START) \/ IsBad(c.INCLUDE_END) \/ IsBad(c.EXCLUDE_START) \/ IsBad(c.EXCLUDE_END)

\* C1: a run that fetches the payload of the run before it, which notified and
\* persisted its state, sends no notification and leaves the state file alone.
C1_NoRenotify ==
  (sameResp /\ prevAlerted) => (notifyCalls = 0 /\ stateFile = fileAtStart)

\* C2: with a non-empty qualifying set of minimum instant m, main() notifies
\* exactly when there is no usable last-seen value or m is strictly earlier
\* than the stored instant.
C2_EarliestStrategy ==
  (Decided /\ ~http_get_json_raises(resp) /\ QualifyingInstants # {}) =>
    ((notifyCalls = 1) <=>
       (~Usable(fileAtStart) \/ SetMin(QualifyingInstants) < StoredInstant(fileAtStart)))

\* C3: passes_date_filters returns what the reference date-window function
\* returns, for every date and every combination of the four bounds.
C3_FilterIsReference ==
  pc = "filtered" => probeResult = Returned(ReferenceFilter(probe, cfg))

C3_Witness ==
  /\ pc = "filtered"
  /\ BothDates(cfg.INCLUDE_START, cfg.INCLUDE_END)
  /\ cfg.INCLUDE_START.day > cfg.INCLUDE_END.day
  /\ BothDates(cfg.EXCLUDE_START, cfg.EXCLUDE_END)
  /\ InWindow(cfg.EXCLUDE_START, cfg.EXCLUDE_END, probe)
  /\ probeResult = Returned(TRUE)

\* C4 as stated: with any bound malformed, every date qualifies.
C4_MalformedMeansNoFilter ==
  (pc = "filtered" /\ AnyBad(cfg)) => probeResult = Returned(TRUE)

\* C4 as amended: a malformed bound switches off the window it belongs to and
\* nothing is raised; the other window, if both its bounds are valid dates,
\* decides alone, and otherwise every date qualifies.
C4_MalformedDisablesItsWindow ==
  (pc = "filtered" /\ AnyBad(cfg)) =>
    probeResult =
      Returned(IF IsBad(cfg.INCLUDE_START) \/ IsBad(cfg.INCLUDE_END)
               THEN IF BothDates(cfg.EXCLUDE_START, cfg.EXCLUDE_END)
                    THEN ~InWindow(cfg.EXCLUDE_START, cfg.EXCLUDE_END, probe)
                    ELSE TRUE
               ELSE IF BothDates(cfg.INCLUDE_START, cfg.INCLUDE_END)
                    THEN InWindow(cfg.INCLUDE_START, cfg.INCLUDE_END, probe)
                    ELSE TRUE)

C4_Witness ==
  /\ pc = "filtered"
  /\ IsBad(cfg.EXCLUDE_START)
  /\ cfg.EXCLUDE_END.text = "date"
  /\ ~IsSet(cfg.INCLUDE_START)
  /\ probeResult = Returned(TRUE)

\* C5: the state file is written at most once in a run and only after notify()
\* has returned in that run; a run that sends no notification (no slots, no
\* slot inside the window, no change) leaves the file as it found it, and a
\* file that was there is never gone.
C5_StateWrittenOnlyAfterAlert ==
  /\ saveCalls <= 1
  /\ saveCalls = 1 => (notifyCalls = 1 /\ stdout = 1)
  /\ stateFile # fileAtStart => (saveCalls = 1 /\ notifyCalls = 1)
  /\ (Decided /\ pc = "done" /\ ~http_get_json_raises(resp) /\ QualifyingInstants = {}) =>
       (notifyCalls = 0 /\ stateFile = fileAtStart)
  /\ (pc = "done" /\ result = "exit0" /\ saveCalls = 0) =>
       (notifyCalls = 0 /\ stateFile = fileAtStart)
  /\ fileAtStart.kind # "missing" => stateFile.kind # "missing"

C5_Witness ==
  /\ pc = "done"
  /\ notifyCalls = 1
  /\ saveCalls = 1
  /\ Usable(fileAtStart)
  /\ stateFile # fileAtStart

\* C6: a failed fetch, a body that is no JSON and JSON that is no array end
\* the run as an empty array does: exit code 0, nothing raised, no
\* notification, the state file untouched.  (Stated for the state files that
\* load as a dict.)
C6_FetchErrorsAreNoData ==
  (pc = "done" /\ resp.kind # "array" /\ fileAtStart.kind # "nonobject") =>
    (result = "exit0" /\ notifyCalls = 0 /\ stateFile = fileAtStart)

\* C7: a run that finds a state file without a usable last-seen value ends as
\* the same run without any state file ends: the same result, the same
\* decision to notify.
C7_CorruptStateIsEmptyState ==
  (pc = "done" /\ ~Usable(fileAtStart)) =>
    /\ result = FinalResult(main_decide(MissingFile, resp, cfg).outcome)
    /\ (notifyCalls = 1) <=> (main_decide(MissingFile, resp, cfg).outcome = "alert")

\* C8: notify() passes its three transport blocks in order whatever became of
\* the ones before, attempts a configured transport once and an unconfigured
\* one never, raises nothing and prints the message; the run then saves the
\* new state and returns 0.
C8_TransportsIndependent ==
  /\ pc = "telegram" => block.transport = "whatsapp"
  /\ pc = "email" => block.transport = "telegram"
  /\ pc = "print" => block.transport = "email"
  /\ block.attempts = (IF block.outcome = "unconfigured" THEN 0 ELSE 1)
  /\ pc \in {"whatsapp", "telegram", "email", "print", "returned"} =>
       (result = "running" /\ notifyCalls = 1)
  /\ (pc \in {"returned", "done"} /\ notifyCalls = 1) => stdout = 1
  /\ (pc = "done" /\ notifyCalls = 1) =>
       /\ result = "exit0"
       /\ saveCalls = 1
       /\ disk = "ok" => (stateFile.kind = "object" /\ stateFile.last_seen_iso.tz = "Z"
                          /\ stateFile.last_seen_iso.wall = earliest.wall)

C8_Witness ==
  /\ pc = "print"
  /\ block = Block("email", "failed", 1)
  /\ sent

\* C9: the runs fed "X" and the twin runs fed "XZ" end alike: the same result,
\* the same decision to notify, the same state file.
C9_NaiveIsUtc ==
  pc = "done" =>
    (result = zResult /\ ((notifyCalls = 1) <=> zNotified) /\ stateFile = zFile)

\* C10: after a run that notified and saved, the stored last-seen value
\* denotes the instant of the earliest qualifying slot of that run.
C10_StoredIsEarliest ==
  (pc = "done" /\ notifyCalls = 1 /\ disk = "ok") =>
    (Usable(stateFile) /\ StoredInstant(stateFile) = SetMin(QualifyingInstants))

====
